---- MODULE Spec2Model ----
(***************************************************************************)
(* Model of the credibility aggregation and user statistics code of the    *)
(* quiz backend: backend/crud.py (create_user_response,                    *)
(* update_article_credibility, update_user_statistics,                     *)
(* create_misinformation_flag), backend/main.py (submit_quiz, create_flag) *)
(* and the tables of backend/database.py.                                  *)
(*                                                                         *)
(* The store is the committed content of the database.  Every request is   *)
(* handled by a worker with its own SQLAlchemy session; a worker's steps   *)
(* are the SQL statements and commits of the handler, so that the states   *)
(* between two commits of one handler are states of the model.             *)
(***************************************************************************)
EXTENDS Integers, Sequences, FiniteSets, TLC

(***************************************************************************)
(* IEEE-754 binary64 arithmetic, as far as the code uses it: the quotient  *)
(* of two small non-negative integers, the product of a double and a small *)
(* non-negative integer, and comparisons.  A positive double is            *)
(* M * 2^(e-52) with 2^52 <= M < 2^53, kept as e, hi = M \div 2^27 and     *)
(* lo = M % 2^27; zero is FZero.  Results are rounded to nearest, ties to  *)
(* even, which is what CPython's float division and multiplication do.     *)
(* Every intermediate value stays below 2^31.                              *)
(***************************************************************************)
FZero == [e |-> 0, hi |-> 0, lo |-> 0]

IsZero(x) == x.hi = 0

RECURSIVE Pow2(_)
Pow2(n) == IF n = 0 THEN 1 ELSE 2 * Pow2(n - 1)

RECURSIVE BitLen(_)
BitLen(k) == IF k = 0 THEN 0 ELSE 1 + BitLen(k \div 2)

\* the double next above the positive double (e, hi, lo)
NextUp(e, hi, lo) ==
    IF lo + 1 < Pow2(27) THEN [e |-> e, hi |-> hi, lo |-> lo + 1]
    ELSE IF hi + 1 < Pow2(26) THEN [e |-> e, hi |-> hi + 1, lo |-> 0]
    ELSE [e |-> e + 1, hi |-> Pow2(25), lo |-> 0]

\* round to nearest, ties to even: guard is the first bit dropped, sticky
\* tells whether any later bit dropped is set
RoundNearestEven(e, hi, lo, guard, sticky) ==
    IF guard = 1 /\ (sticky \/ lo % 2 = 1) THEN NextUp(e, hi, lo)
    ELSE [e |-> e, hi |-> hi, lo |-> lo]

\* the exponent of a / b, and a, b scaled so that 1 <= a / b < 2
RECURSIVE Normalise(_, _, _)
Normalise(a, b, e) ==
    IF a >= 2 * b THEN Normalise(a, 2 * b, e + 1)
    ELSE IF a < b THEN Normalise(2 * a, b, e - 1)
    ELSE <<a, b, e>>

\* a / b of Python for integers 0 <= a, 0 < b, both below 2^16: long
\* division, 13 quotient bits at a time, then the guard bit
FDiv(a, b) ==
    IF a = 0 THEN FZero
    ELSE LET n  == Normalise(a, b, 0)
             d  == n[2]
             r0 == n[1] - d
             q1 == (r0 * 8192) \div d
             r1 == (r0 * 8192) % d
             q2 == (r1 * 8192) \div d
             r2 == (r1 * 8192) % d
             q3 == (r2 * 8192) \div d
             r3 == (r2 * 8192) % d
             q4 == (r3 * 8192) \div d
             r4 == (r3 * 8192) % d
             g  == (r4 * 2) \div d
             r5 == (r4 * 2) % d
         IN  RoundNearestEven(n[3],
                              Pow2(25) + q1 * 4096 + q2 \div 2,
                              (q2 % 2) * Pow2(26) + q3 * 8192 + q4,
                              g, r5 # 0)

\* x * k of Python for a double x >= 0 and an integer 0 <= k < 2^16: the
\* exact product in limbs of 13, 13, 13 and 14 bits, shifted right by s
FMulInt(x, k) ==
    IF IsZero(x) \/ k = 0 THEN FZero
    ELSE LET p0 == (x.lo % 16384) * k
             p1 == (x.lo \div 16384) * k + p0 \div 16384
             p2 == (x.hi % 8192) * k + p1 \div 8192
             t  == (x.hi \div 8192) * k + p2 \div 8192
             d0 == p0 % 16384
             d1 == p1 % 8192
             d2 == p2 % 8192
             s  == BitLen(t) - 13
             w  == Pow2(s)
             u  == (t % w) * 8192 + d2
             v  == (u % w) * 8192 + d1
             z  == (v % w) * 16384 + d0
             rm == z % w
         IN  RoundNearestEven(x.e + s,
                              (t \div w) * 8192 + u \div w,
                              (v \div w) * 16384 + z \div w,
                              IF s = 0 THEN 0 ELSE rm \div Pow2(s - 1),
                              s > 0 /\ rm % Pow2(s - 1) # 0)

\* float(k) for an integer 0 <= k < 2^16
FromInt(k) == FDiv(k, 1)

FLess(x, y) ==
    IF IsZero(y) THEN FALSE
    ELSE IF IsZero(x) THEN TRUE
    ELSE \/ x.e < y.e
         \/ x.e = y.e /\ x.hi < y.hi
         \/ x.e = y.e /\ x.hi = y.hi /\ x.lo < y.lo

FGeq(x, y) == ~FLess(x, y)

(***************************************************************************)
(* The catalogue: the rows the other endpoints have created before the     *)
(* requests of this model arrive.  create_user_response and the recomputes *)
(* only read them.                                                         *)
(***************************************************************************)
ArticleIds == {1, 2}

\* Quiz.article_id by Quiz.id; generate_quiz takes it from a stored Article
QuizArticle == <<1, 2>>

QuizIds == DOMAIN QuizArticle

\* Question.correct_option by Question.id
CorrectOption == <<2, 3>>

QuestionIds == DOMAIN CorrectOption

\* user 1 is the anonymous user of init_db
UserIds == {1, 2}

(***************************************************************************)
(* Bounds and the requests the clients send.                               *)
(***************************************************************************)
MaxResponses == 2

MaxFlags == 1

MaxClock == 2

Workers == {1, 2}

Answer(q, o) == [question_id |-> q, selected_option |-> o]

Assessments ==
    {[user_credibility_rating |-> 5, user_confidence_level |-> 5,
      user_flagged_as_misinformation |-> FALSE],
     [user_credibility_rating |-> 1, user_confidence_level |-> 1,
      user_flagged_as_misinformation |-> TRUE]}

QuizSubmission(q, u, a, m) ==
    [kind |-> "quiz", quiz_id |-> q, user_id |-> u, answers |-> a,
     user_credibility_rating |-> m.user_credibility_rating,
     user_confidence_level |-> m.user_confidence_level,
     user_flagged_as_misinformation |-> m.user_flagged_as_misinformation]

\* the answer lists: none; one right, one wrong and one for a question that
\* is not stored; one right.  Quiz 3 and user 3 are not stored
Submissions ==
    {QuizSubmission(q, u, a, m) : q \in QuizIds, u \in UserIds,
                                  a \in {<<>>, <<Answer(1, 2), Answer(2, 1), Answer(3, 1)>>},
                                  m \in Assessments}
    \cup {QuizSubmission(1, 1, <<Answer(1, 2)>>, m) : m \in Assessments}
    \cup {QuizSubmission(3, 1, <<Answer(1, 2)>>, m) : m \in Assessments}
    \cup {QuizSubmission(1, 3, <<Answer(1, 2)>>, m) : m \in Assessments}

\* the submissions that several workers handle at once
WorkerSubmissions ==
    {QuizSubmission(1, 1, a, m) : a \in {<<>>, <<Answer(1, 2), Answer(2, 1), Answer(3, 1)>>},
                                  m \in Assessments}

\* user_credibility_rating and user_confidence_level: Field(..., ge=1, le=5)
Ratings == 1..5

\* the submissions with every rating and confidence level
RatingSubmissions ==
    {QuizSubmission(1, 1, <<Answer(1, 2)>>,
                    [user_credibility_rating |-> r, user_confidence_level |-> c,
                     user_flagged_as_misinformation |-> r <= 2]) :
        r \in Ratings, c \in Ratings}

\* the submissions that precede the direct calls of update_user_statistics
CallSubmissions ==
    {QuizSubmission(1, u, <<Answer(1, 2), Answer(2, 1), Answer(3, 1)>>, m) :
        u \in UserIds, m \in Assessments}

MisinformationFlagCreate(a, u) == [kind |-> "flag", article_id |-> a, user_id |-> u]

\* article 3 is not stored
FlagRequests == {MisinformationFlagCreate(1, 1), MisinformationFlagCreate(3, 2)}

NoRequest == [kind |-> "none"]

NoTxn == [open |-> FALSE]

NoOrm == [loaded |-> FALSE]

NoReply == [status |-> 0]

(***************************************************************************)
(* The state.                                                              *)
(***************************************************************************)
VARIABLES
    responses,  \* committed user_responses rows, in id order
    answers,    \* committed user_answers rows, in id order
    flags,      \* committed misinformation_flags rows, in id order
    article,    \* committed derived columns of the articles rows
    user,       \* committed statistics columns of the users rows
    now,        \* what datetime.utcnow() returns
    pc,         \* each worker's position in its handler
    req,        \* the request a worker is handling
    txn,        \* a worker's flushed, uncommitted rows
    orm,        \* the row a worker's session has loaded and its new values
    reply,      \* the reply a worker is about to send, with what submit_quiz holds for it
    last_call,  \* history: the user of the latest direct calls of
                \* update_user_statistics with no row created since, and
                \* how many there were (2 stands for two or more)
    view        \* the latest call of a read-only function: its arguments
                \* and, once it has returned, its result

store == <<responses, answers, flags, article, user>>

vars == <<responses, answers, flags, article, user, now, pc, req, txn, orm, reply, last_call,
          view>>

\* Column defaults of Article (database.py)
NewArticle ==
    [credibility_score |-> FZero, total_responses |-> 0,
     flagged_as_misinformation |-> 0, flagged_as_credible |-> 0]

\* Column defaults of User (database.py); the row is created at time 0
NewUser ==
    [total_quizzes_taken |-> 0, total_correct_answers |-> 0, total_answers |-> 0,
     accuracy_rate |-> FZero, articles_flagged |-> 0, credibility_rating_given |-> 0,
     last_active |-> 0]

NoCall == [user |-> 0, n |-> 0]

NoView == [fn |-> "none"]

\* the store and the sessions once init_db has run
Constructed ==
    /\ responses = <<>>
    /\ answers = <<>>
    /\ flags = <<>>
    /\ article = [a \in ArticleIds |-> NewArticle]
    /\ user = [u \in UserIds |-> NewUser]
    /\ now = 0
    /\ pc = [p \in Workers |-> "idle"]
    /\ req = [p \in Workers |-> NoRequest]
    /\ txn = [p \in Workers |-> NoTxn]
    /\ orm = [p \in Workers |-> NoOrm]
    /\ reply = [p \in Workers |-> NoReply]
    /\ last_call = NoCall

Init == Constructed /\ view = NoView

(***************************************************************************)
(* Queries and the values the handlers compute from their results.         *)
(***************************************************************************)
NoRow == [id |-> 0]

\* a lookup that falls back to the first quiz
get_quiz_or_first(q) ==
    IF q \in QuizIds THEN [id |-> q, article_id |-> QuizArticle[q]]
    ELSE [id |-> 1, article_id |-> QuizArticle[1]]

\* crud.get_quiz_by_id: the Quiz row, or None
get_quiz_by_id(q) ==
    IF q \in QuizIds THEN [id |-> q, article_id |-> QuizArticle[q]] ELSE NoRow

RECURSIVE Sum(_)
Sum(s) == IF s = <<>> THEN 0 ELSE Head(s) + Sum(Tail(s))

\* the query without its filter
ResponsesOfAnyArticle(a) == responses

\* db.query(UserResponse).filter(UserResponse.article_id == article_id).all()
ResponsesOfArticle(a) == SelectSeq(responses, LAMBDA r : r.article_id = a)

\* the query without its filter
ResponsesOfAnyUser(u) == responses

\* db.query(UserResponse).filter(UserResponse.user_id == user_id).all()
ResponsesOfUser(u) == SelectSeq(responses, LAMBDA r : r.user_id = u)

\* db.query(MisinformationFlag).filter(MisinformationFlag.user_id == user_id).count()
FlagCount(u) == Len(SelectSeq(flags, LAMBDA f : f.user_id = u))

\* (correct_count / total_questions * 100) if total_questions > 0 else 0
Percentage(correct, total) ==
    IF total > 0 THEN FMulInt(FDiv(correct, total), 100) ELSE FZero

\* the plain mean of the ratings, confidence ignored
ArticleAggregateUnweighted(old, rs) ==
    IF rs = <<>> THEN old
    ELSE LET rating_sum == Sum([i \in 1..Len(rs) |-> rs[i].user_credibility_rating])
         IN  [credibility_score |-> FMulInt(FDiv(rating_sum, Len(rs)), 20),
              total_responses |-> Len(rs),
              flagged_as_misinformation |->
                  Len(SelectSeq(rs, LAMBDA r : r.user_flagged_as_misinformation)),
              flagged_as_credible |->
                  Len(SelectSeq(rs, LAMBDA r : ~r.user_flagged_as_misinformation))]

\* the weighted sum divided by the number of responses
ArticleAggregateDividedByCount(old, rs) ==
    IF rs = <<>> THEN old
    ELSE LET weighted_sum == Sum([i \in 1..Len(rs) |->
                                    rs[i].user_credibility_rating * rs[i].user_confidence_level])
         IN  [credibility_score |-> FMulInt(FDiv(weighted_sum, Len(rs)), 20),
              total_responses |-> Len(rs),
              flagged_as_misinformation |->
                  Len(SelectSeq(rs, LAMBDA r : r.user_flagged_as_misinformation)),
              flagged_as_credible |->
                  Len(SelectSeq(rs, LAMBDA r : ~r.user_flagged_as_misinformation))]

\* every response counted as credible
ArticleAggregateCredibleAll(old, rs) ==
    IF rs = <<>> THEN old
    ELSE LET weighted_sum == Sum([i \in 1..Len(rs) |->
                                    rs[i].user_credibility_rating * rs[i].user_confidence_level])
             total_weight == Sum([i \in 1..Len(rs) |-> rs[i].user_confidence_level])
         IN  [credibility_score |->
                  IF total_weight > 0 THEN FMulInt(FDiv(weighted_sum, total_weight), 20)
                  ELSE old.credibility_score,
              total_responses |-> Len(rs),
              flagged_as_misinformation |->
                  Len(SelectSeq(rs, LAMBDA r : r.user_flagged_as_misinformation)),
              flagged_as_credible |-> Len(rs)]

\* an article without responses set to a neutral score
ArticleAggregateNeutralWhenEmpty(old, rs) ==
    LET weighted_sum == Sum([i \in 1..Len(rs) |->
                               rs[i].user_credibility_rating * rs[i].user_confidence_level])
        total_weight == Sum([i \in 1..Len(rs) |-> rs[i].user_confidence_level])
    IN  [credibility_score |->
             IF total_weight > 0 THEN FMulInt(FDiv(weighted_sum, total_weight), 20)
             ELSE FDiv(50, 1),
         total_responses |-> Len(rs),
         flagged_as_misinformation |->
             Len(SelectSeq(rs, LAMBDA r : r.user_flagged_as_misinformation)),
         flagged_as_credible |->
             Len(SelectSeq(rs, LAMBDA r : ~r.user_flagged_as_misinformation))]

\* the attribute values update_article_credibility sets on the loaded
\* Article, given the responses its query returned
ArticleAggregate(old, rs) ==
    IF rs = <<>> THEN old
    ELSE LET weighted_sum == Sum([i \in 1..Len(rs) |->
                                    rs[i].user_credibility_rating * rs[i].user_confidence_level])
             total_weight == Sum([i \in 1..Len(rs) |-> rs[i].user_confidence_level])
         IN  [credibility_score |->
                  IF total_weight > 0 THEN FMulInt(FDiv(weighted_sum, total_weight), 20)
                  ELSE old.credibility_score,
              total_responses |-> Len(rs),
              flagged_as_misinformation |->
                  Len(SelectSeq(rs, LAMBDA r : r.user_flagged_as_misinformation)),
              flagged_as_credible |->
                  Len(SelectSeq(rs, LAMBDA r : ~r.user_flagged_as_misinformation))]

\* the accuracy taken over the number of responses
UserAggregateAccuracyPerQuiz(old, rs, nflags, t) ==
    IF rs = <<>> THEN old
    ELSE LET total_correct == Sum([i \in 1..Len(rs) |-> rs[i].correct_answers])
             total_answers == Sum([i \in 1..Len(rs) |-> rs[i].total_questions])
         IN  [total_quizzes_taken |-> Len(rs),
              total_correct_answers |-> total_correct,
              total_answers |-> total_answers,
              accuracy_rate |-> Percentage(total_correct, Len(rs)),
              articles_flagged |-> nflags,
              credibility_rating_given |-> Len(rs),
              last_active |-> t]

\* the counters patched incrementally instead of recomputed
UserAggregateIncremental(old, rs, nflags, t) ==
    IF rs = <<>> THEN old
    ELSE LET total_correct == Sum([i \in 1..Len(rs) |-> rs[i].correct_answers])
             total_answers == Sum([i \in 1..Len(rs) |-> rs[i].total_questions])
         IN  [total_quizzes_taken |-> old.total_quizzes_taken + 1,
              total_correct_answers |-> total_correct,
              total_answers |-> total_answers,
              accuracy_rate |-> Percentage(total_correct, total_answers),
              articles_flagged |-> nflags,
              credibility_rating_given |-> Len(rs),
              last_active |-> t]

\* the attribute values update_user_statistics sets on the loaded User,
\* given the responses its query returned, the flag count and utcnow()
UserAggregate(old, rs, nflags, t) ==
    IF rs = <<>> THEN old
    ELSE LET total_correct == Sum([i \in 1..Len(rs) |-> rs[i].correct_answers])
             total_answers == Sum([i \in 1..Len(rs) |-> rs[i].total_questions])
         IN  [total_quizzes_taken |-> Len(rs),
              total_correct_answers |-> total_correct,
              total_answers |-> total_answers,
              accuracy_rate |-> Percentage(total_correct, total_answers),
              articles_flagged |-> nflags,
              credibility_rating_given |-> Len(rs),
              last_active |-> t]

\* db.commit() of a session holding one loaded row: the UPDATE that the
\* unit of work emits names the attributes whose value differs from the
\* loaded one, and the other columns keep what is stored
Flushed(stored, old, new) ==
    [f \in DOMAIN new |-> IF new[f] = old[f] THEN stored[f] ELSE new[f]]

\* the three-way label of submit_quiz
CredibleFrom == 70

MisleadingFrom == 40

Consensus(score) ==
    IF FGeq(score, FromInt(CredibleFrom)) THEN "likely_credible"
    ELSE IF FGeq(score, FromInt(MisleadingFrom)) THEN "possibly_misleading"
    ELSE "likely_fake"

\* the article a request's update_article_credibility call is for
ArticleOf(r) == IF r.kind = "quiz" THEN QuizArticle[r.quiz_id] ELSE r.article_id

\* SQLite admits one writing transaction at a time
NoOtherWriter(p) == \A q \in Workers \ {p} : ~txn[q].open

Idle == \A p \in Workers : pc[p] = "idle"

(***************************************************************************)
(* submit_quiz and crud.create_user_response, statement by statement.      *)
(***************************************************************************)
\* the request arrives; line 310 looks the quiz up, and an unknown quiz
\* raises ValueError, which submit_quiz turns into HTTP 400
SubmitQuiz(p, s) ==
    /\ pc[p] = "idle"
    /\ Len(responses) + Cardinality({q \in Workers : pc[q] \in {"flush", "answers"}})
           < MaxResponses
    /\ req' = [req EXCEPT ![p] = s]
    /\ IF get_quiz_by_id(s.quiz_id) = NoRow
       THEN /\ pc' = [pc EXCEPT ![p] = "responded"]
            /\ reply' = [reply EXCEPT ![p] = [status |-> 400]]
       ELSE /\ pc' = [pc EXCEPT ![p] = "flush"]
            /\ reply' = reply
    /\ UNCHANGED <<store, now, txn, orm, last_call, view>>

\* the row committed where it is flushed
FlushAndCommit(p) ==
    /\ pc[p] = "flush"
    /\ NoOtherWriter(p)
    /\ txn' = [txn EXCEPT ![p] =
          [open |-> TRUE,
           response |->
               [id |-> Len(responses) + 1,
                user_id |-> req[p].user_id,
                article_id |-> get_quiz_by_id(req[p].quiz_id).article_id,
                quiz_id |-> req[p].quiz_id,
                total_questions |-> Len(req[p].answers),
                correct_answers |-> 0,
                score_percentage |-> FZero,
                user_credibility_rating |-> req[p].user_credibility_rating,
                user_flagged_as_misinformation |-> req[p].user_flagged_as_misinformation,
                user_confidence_level |-> req[p].user_confidence_level],
           answers |-> <<>>,
           idx |-> 0,
           correct_count |-> 0]]
    /\ responses' = Append(responses, txn'[p].response)
    /\ pc' = [pc EXCEPT ![p] = "answers"]
    /\ UNCHANGED <<answers, flags, article, user, now, req, orm, reply, last_call, view>>

\* lines 316-338: the UserResponse with its initial score, added and flushed
Flush(p) ==
    /\ pc[p] = "flush"
    /\ NoOtherWriter(p)
    /\ txn' = [txn EXCEPT ![p] =
          [open |-> TRUE,
           response |->
               [id |-> Len(responses) + 1,
                user_id |-> req[p].user_id,
                article_id |-> get_quiz_by_id(req[p].quiz_id).article_id,
                quiz_id |-> req[p].quiz_id,
                total_questions |-> Len(req[p].answers),
                correct_answers |-> 0,
                score_percentage |-> FZero,
                user_credibility_rating |-> req[p].user_credibility_rating,
                user_flagged_as_misinformation |-> req[p].user_flagged_as_misinformation,
                user_confidence_level |-> req[p].user_confidence_level],
           answers |-> <<>>,
           idx |-> 0,
           correct_count |-> 0]]
    /\ pc' = [pc EXCEPT ![p] = "answers"]
    /\ UNCHANGED <<store, now, req, orm, reply, last_call, view>>

\* every answer of a stored question counted as correct
AddAnswerCountingAll(p) ==
    /\ pc[p] = "answers"
    /\ txn[p].idx < Len(req[p].answers)
    /\ LET answer_data == req[p].answers[txn[p].idx + 1]
           found == answer_data.question_id \in QuestionIds
           is_correct == found /\ answer_data.selected_option
                                      = CorrectOption[answer_data.question_id]
       IN  txn' = [txn EXCEPT ![p] =
               IF ~found THEN [@ EXCEPT !.idx = @ + 1]
               ELSE [@ EXCEPT !.idx = @ + 1,
                              !.correct_count = @ + 1,
                              !.answers = Append(@,
                                  [response_id |-> txn[p].response.id,
                                   question_id |-> answer_data.question_id,
                                   selected_option |-> answer_data.selected_option,
                                   is_correct |-> is_correct])]]
    /\ UNCHANGED <<store, now, pc, req, orm, reply, last_call, view>>

\* lines 343-366: one round of the loop over submission.answers
AddAnswer(p) ==
    /\ pc[p] = "answers"
    /\ txn[p].idx < Len(req[p].answers)
    /\ LET answer_data == req[p].answers[txn[p].idx + 1]
           found == answer_data.question_id \in QuestionIds
           is_correct == found /\ answer_data.selected_option
                                      = CorrectOption[answer_data.question_id]
       IN  txn' = [txn EXCEPT ![p] =
               IF ~found THEN [@ EXCEPT !.idx = @ + 1]
               ELSE [@ EXCEPT !.idx = @ + 1,
                              !.correct_count = IF is_correct THEN @ + 1 ELSE @,
                              !.answers = Append(@,
                                  [response_id |-> txn[p].response.id,
                                   question_id |-> answer_data.question_id,
                                   selected_option |-> answer_data.selected_option,
                                   is_correct |-> is_correct])]]
    /\ UNCHANGED <<store, now, pc, req, orm, reply, last_call, view>>

\* lines 369-375: the final score, and the commit of the response with
\* its answers; the id of the refreshed row is the reply's response_id
CommitResponse(p) ==
    /\ pc[p] = "answers"
    /\ txn[p].idx = Len(req[p].answers)
    /\ responses' = Append(responses,
           [txn[p].response EXCEPT
               !.correct_answers = txn[p].correct_count,
               !.score_percentage =
                   Percentage(txn[p].correct_count, txn[p].response.total_questions)])
    /\ answers' = answers \o txn[p].answers
    /\ txn' = [txn EXCEPT ![p] = NoTxn]
    /\ reply' = [reply EXCEPT ![p] = [status |-> 0, response_id |-> txn[p].response.id]]
    /\ pc' = [pc EXCEPT ![p] = "article_read"]
    /\ last_call' = NoCall
    /\ UNCHANGED <<flags, article, user, now, req, orm, view>>

(***************************************************************************)
(* crud.update_article_credibility (lines 139-178), called by              *)
(* create_user_response and by create_misinformation_flag.                 *)
(***************************************************************************)
\* lines 144-174: load the Article, query its responses, set the attributes
ArticleRead(p) ==
    /\ pc[p] = "article_read"
    /\ LET a == ArticleOf(req[p])
       IN  IF a \notin ArticleIds
           THEN /\ pc' = [pc EXCEPT ![p] = IF req[p].kind = "quiz" THEN "user_read"
                                           ELSE "respond"]
                /\ orm' = orm
           ELSE /\ pc' = [pc EXCEPT ![p] = "article_commit"]
                /\ orm' = [orm EXCEPT ![p] =
                       [loaded |-> TRUE, id |-> a, old |-> article[a],
                        new |-> ArticleAggregate(article[a], ResponsesOfArticle(a))]]
    /\ UNCHANGED <<store, now, req, txn, reply, last_call, view>>

\* lines 176-178: commit
ArticleCommit(p) ==
    /\ pc[p] = "article_commit"
    /\ NoOtherWriter(p)
    /\ article' = [article EXCEPT ![orm[p].id] = Flushed(@, orm[p].old, orm[p].new)]
    /\ orm' = [orm EXCEPT ![p] = NoOrm]
    /\ pc' = [pc EXCEPT ![p] = IF req[p].kind = "quiz" THEN "user_read" ELSE "respond"]
    /\ UNCHANGED <<responses, answers, flags, user, now, req, txn, reply, last_call, view>>

(***************************************************************************)
(* crud.update_user_statistics (lines 266-296).                            *)
(***************************************************************************)
\* lines 268-292: load the User, query the responses and the flag count,
\* set the attributes
UserRead(p) ==
    /\ pc[p] = "user_read"
    /\ LET u == req[p].user_id
       IN  IF u \notin UserIds
           THEN /\ pc' = [pc EXCEPT ![p] = "respond"]
                /\ orm' = orm
           ELSE /\ pc' = [pc EXCEPT ![p] = "user_commit"]
                /\ orm' = [orm EXCEPT ![p] =
                       [loaded |-> TRUE, id |-> u, old |-> user[u],
                        new |-> UserAggregate(user[u], ResponsesOfUser(u),
                                              FlagCount(u), now)]]
    /\ UNCHANGED <<store, now, req, txn, reply, last_call, view>>

\* lines 294-296: commit
UserCommit(p) ==
    /\ pc[p] = "user_commit"
    /\ NoOtherWriter(p)
    /\ user' = [user EXCEPT ![orm[p].id] = Flushed(@, orm[p].old, orm[p].new)]
    /\ orm' = [orm EXCEPT ![p] = NoOrm]
    /\ pc' = [pc EXCEPT ![p] = "respond"]
    /\ UNCHANGED <<responses, answers, flags, article, now, req, txn, reply, last_call, view>>

\* a direct call of update_user_statistics(db, u) while no request is
\* being handled
CallUpdateUserStatistics(u) ==
    /\ Idle
    /\ user' = IF u \in UserIds
               THEN [user EXCEPT ![u] =
                        UserAggregate(@, ResponsesOfUser(u), FlagCount(u), now)]
               ELSE user
    /\ last_call' = IF last_call.user = u THEN [user |-> u, n |-> 2]
                    ELSE [user |-> u, n |-> 1]
    /\ UNCHANGED <<responses, answers, flags, article, now, pc, req, txn, orm, reply, view>>

(***************************************************************************)
(* create_flag and crud.create_misinformation_flag (lines 395-413).        *)
(***************************************************************************)
\* the flag counted into the article's flagged_as_misinformation
CreateFlagCountedOnArticle(p, f) ==
    /\ pc[p] = "idle"
    /\ Len(flags) < MaxFlags
    /\ NoOtherWriter(p)
    /\ flags' = Append(flags, [id |-> Len(flags) + 1, article_id |-> f.article_id,
                               user_id |-> f.user_id])
    /\ article' = [a \in ArticleIds |->
                      IF a = f.article_id
                      THEN [article[a] EXCEPT !.flagged_as_misinformation = @ + 1]
                      ELSE article[a]]
    /\ req' = [req EXCEPT ![p] = f]
    /\ pc' = [pc EXCEPT ![p] = "article_read"]
    /\ last_call' = NoCall
    /\ UNCHANGED <<responses, answers, user, now, txn, orm, reply, view>>

\* lines 397-408: the flag, added and committed
CreateFlag(p, f) ==
    /\ pc[p] = "idle"
    /\ Len(flags) < MaxFlags
    /\ NoOtherWriter(p)
    /\ flags' = Append(flags, [id |-> Len(flags) + 1, article_id |-> f.article_id,
                               user_id |-> f.user_id])
    /\ req' = [req EXCEPT ![p] = f]
    /\ pc' = [pc EXCEPT ![p] = "article_read"]
    /\ last_call' = NoCall
    /\ UNCHANGED <<responses, answers, article, user, now, txn, orm, reply, view>>

(***************************************************************************)
(* The replies (main.py lines 387-406 and 427) and the end of a request.   *)
(***************************************************************************)
Respond(p) ==
    /\ pc[p] = "respond"
    /\ reply' = [reply EXCEPT ![p] =
          IF req[p].kind = "flag" THEN [status |-> 200]
          ELSE LET a == article[ArticleOf(req[p])]
               IN  [status |-> 200,
                    response_id |-> reply[p].response_id,
                    article_credibility_score |-> a.credibility_score,
                    community_consensus |-> Consensus(a.credibility_score)]]
    /\ pc' = [pc EXCEPT ![p] = "responded"]
    /\ UNCHANGED <<store, now, req, txn, orm, last_call, view>>

\* get_db closes the session once the reply is sent
Close(p) ==
    /\ pc[p] = "responded"
    /\ pc' = [pc EXCEPT ![p] = "idle"]
    /\ req' = [req EXCEPT ![p] = NoRequest]
    /\ reply' = [reply EXCEPT ![p] = NoReply]
    /\ UNCHANGED <<store, now, txn, orm, last_call, view>>

\* time passes
Tick ==
    /\ now < MaxClock
    /\ now' = now + 1
    /\ UNCHANGED <<store, pc, req, txn, orm, reply, last_call, view>>

(***************************************************************************)
(* crud.calculate_streak (lines 498-516), a function of a list of          *)
(* responses.  completed_at counts ticks of the clock; the calendar date   *)
(* of a tick is its day number.                                            *)
(***************************************************************************)
TicksPerDay == 2

MaxTime == 9

MaxStreakResponses == 4

\* datetime.date()
date(t) == t \div TicksPerDay

\* sorted(list(set(...)), reverse=True)
RECURSIVE SortedDescending(_)
SortedDescending(S) ==
    IF S = {} THEN <<>>
    ELSE LET m == CHOOSE x \in S : \A y \in S : y <= x
         IN  <<m>> \o SortedDescending(S \ {m})

\* the loop that goes on past a gap
RECURSIVE StreakLoopNoBreak(_, _, _)
StreakLoopNoBreak(dates, i, streak) ==
    IF i > Len(dates) - 1 THEN streak
    ELSE IF dates[i] - dates[i + 1] = 1 THEN StreakLoopNoBreak(dates, i + 1, streak + 1)
         ELSE StreakLoopNoBreak(dates, i + 1, streak)

\* lines 508-514: for i in range(len(dates) - 1), from index i on
RECURSIVE StreakLoop(_, _, _)
StreakLoop(dates, i, streak) ==
    IF i > Len(dates) - 1 THEN streak
    ELSE LET diff == dates[i] - dates[i + 1]
         IN  IF diff = 1 THEN StreakLoop(dates, i + 1, streak + 1)
             ELSE IF diff > 1 THEN streak
             ELSE StreakLoop(dates, i + 1, streak)

\* the streak that does not stop at the first gap
calculate_streak_past_gaps(rs) ==
    IF rs = <<>> THEN 0
    ELSE LET dates == SortedDescending({date(rs[i].completed_at) : i \in 1..Len(rs)})
         IN  IF dates = <<>> THEN 0 ELSE StreakLoopNoBreak(dates, 1, 1)

calculate_streak(rs) ==
    IF rs = <<>> THEN 0
    ELSE LET dates == SortedDescending({date(rs[i].completed_at) : i \in 1..Len(rs)})
         IN  IF dates = <<>> THEN 0 ELSE StreakLoop(dates, 1, 1)

\* the argument: any list of at most MaxStreakResponses responses, with
\* completion times in any order
InitStreak ==
    /\ Constructed
    /\ \E n \in 0..MaxStreakResponses :
           \E f \in [1..n -> 0..MaxTime] :
               view = [fn |-> "calculate_streak",
                       responses |-> [i \in 1..n |-> [completed_at |-> f[i]]],
                       returned |-> FALSE, result |-> 0]

CalculateStreak ==
    /\ view.fn = "calculate_streak"
    /\ ~view.returned
    /\ view' = [view EXCEPT !.returned = TRUE, !.result = calculate_streak(view.responses)]
    /\ UNCHANGED <<store, now, pc, req, txn, orm, reply, last_call>>

(***************************************************************************)
(* crud.get_user_achievements (lines 624-789), a function of the User row  *)
(* and of the user's responses.                                            *)
(***************************************************************************)
\* if <condition>: achievements.append({"id": id, ...})
Badge(condition, id) == IF condition THEN <<id>> ELSE <<>>

\* the third quiz badge given only above its threshold
get_user_achievements_above_ten(u, rs) ==
    IF u = NoRow THEN <<>>
    ELSE LET streak == calculate_streak(rs)
         IN  Badge(u.total_quizzes_taken >= 1, "first_quiz")
             \o Badge(u.total_quizzes_taken >= 5, "getting_started")
             \o Badge(u.total_quizzes_taken > 10, "quiz_master")
             \o Badge(u.total_quizzes_taken >= 25, "dedicated")
             \o Badge(u.total_quizzes_taken >= 50, "quiz_legend")
             \o Badge(FGeq(u.accuracy_rate, FromInt(70)), "good_eye")
             \o Badge(FGeq(u.accuracy_rate, FromInt(80)), "sharp_eye")
             \o Badge(FGeq(u.accuracy_rate, FromInt(90)), "eagle_eye")
             \o Badge(FGeq(u.accuracy_rate, FromInt(95)), "perfectionist")
             \o Badge(u.articles_flagged >= 1, "vigilant")
             \o Badge(u.articles_flagged >= 5, "fact_checker")
             \o Badge(u.articles_flagged >= 10, "truth_seeker")
             \o Badge(streak >= 3, "consistent")
             \o Badge(streak >= 7, "weekly_warrior")
             \o Badge(streak >= 14, "unstoppable")

\* the "id" of each achievement returned, in order; u is the User row that
\* get_user_by_id returns and rs the result of the responses query
get_user_achievements(u, rs) ==
    IF u = NoRow THEN <<>>
    ELSE LET streak == calculate_streak(rs)
         IN  Badge(u.total_quizzes_taken >= 1, "first_quiz")
             \o Badge(u.total_quizzes_taken >= 5, "getting_started")
             \o Badge(u.total_quizzes_taken >= 10, "quiz_master")
             \o Badge(u.total_quizzes_taken >= 25, "dedicated")
             \o Badge(u.total_quizzes_taken >= 50, "quiz_legend")
             \o Badge(FGeq(u.accuracy_rate, FromInt(70)), "good_eye")
             \o Badge(FGeq(u.accuracy_rate, FromInt(80)), "sharp_eye")
             \o Badge(FGeq(u.accuracy_rate, FromInt(90)), "eagle_eye")
             \o Badge(FGeq(u.accuracy_rate, FromInt(95)), "perfectionist")
             \o Badge(u.articles_flagged >= 1, "vigilant")
             \o Badge(u.articles_flagged >= 5, "fact_checker")
             \o Badge(u.articles_flagged >= 10, "truth_seeker")
             \o Badge(streak >= 3, "consistent")
             \o Badge(streak >= 7, "weekly_warrior")
             \o Badge(streak >= 14, "unstoppable")

\* the users get_user_achievements is called for: numbers of responses,
\* lengths of the run of days that ends at the latest response, totals of
\* correct and given answers, and flag counts, around every threshold
QuizCounts == {1, 4, 5, 9, 10, 24, 25, 49, 50}

RunLengths == {1, 2, 3, 6, 7, 13, 14}

AnswerTotals ==
    {<<0, 0>>, <<69, 100>>, <<70, 100>>, <<79, 100>>, <<80, 100>>, <<89, 100>>,
     <<90, 100>>, <<23, 25>>, <<94, 100>>, <<95, 100>>, <<100, 100>>}

FlagCounts == {0, 1, 4, 5, 9, 10}

\* the User row after update_user_statistics, for n responses
UserWith(n, ct, f) ==
    [id |-> 1,
     total_quizzes_taken |-> n, total_correct_answers |-> ct[1], total_answers |-> ct[2],
     accuracy_rate |-> Percentage(ct[1], ct[2]), articles_flagged |-> f,
     credibility_rating_given |-> n, last_active |-> 0]

\* n responses in the order of their creation: the last k on consecutive
\* days, the ones before on one earlier day
ResponsesWithRun(n, k) ==
    [i \in 1..n |->
        [completed_at |-> TicksPerDay * (IF i <= n - k THEN 0 ELSE 2 + i - (n - k))]]

InitAchievements ==
    /\ Constructed
    /\ \/ view = [fn |-> "get_user_achievements", user |-> NoRow, responses |-> <<>>,
                   returned |-> FALSE, result |-> <<>>]
       \/ view = [fn |-> "get_user_achievements", user |-> NewUser, responses |-> <<>>,
                   returned |-> FALSE, result |-> <<>>]
       \/ \E n \in QuizCounts, k \in RunLengths, ct \in AnswerTotals, f \in FlagCounts :
              /\ k <= n
              /\ view = [fn |-> "get_user_achievements", user |-> UserWith(n, ct, f),
                         responses |-> ResponsesWithRun(n, k),
                         returned |-> FALSE, result |-> <<>>]

GetUserAchievements ==
    /\ view.fn = "get_user_achievements"
    /\ ~view.returned
    /\ view' = [view EXCEPT !.returned = TRUE,
                            !.result = get_user_achievements(view.user, view.responses)]
    /\ UNCHANGED <<store, now, pc, req, txn, orm, reply, last_call>>

(***************************************************************************)
(* crud.get_leaderboard (lines 596-621) and the rank lookup of             *)
(* crud.get_user_statistics_detailed (lines 519-593), functions of the     *)
(* users table.  The table is a list of User rows in the order in which a  *)
(* query without ORDER BY enumerates them.                                 *)
(***************************************************************************)
MaxUsers == 3

\* total_quizzes_taken, total_correct_answers and total_answers of the
\* users of the table; the first has taken no quiz
BoardTotals ==
    {<<0, 0, 0>>, <<10, 5, 10>>, <<4, 9, 10>>, <<1, 0, 3>>, <<2, 0, 5>>, <<2, 1, 2>>,
     <<1, 1, 1>>}

\* limit: int = 10 is the default of the endpoint
BoardLimits == {2, 10}

BoardUser(i, nct) ==
    [id |-> i,
     total_quizzes_taken |-> nct[1], total_correct_answers |-> nct[2],
     total_answers |-> nct[3], accuracy_rate |-> Percentage(nct[2], nct[3]),
     articles_flagged |-> 0, credibility_rating_given |-> nct[1], last_active |-> 0]

\* int(x) of a float 0 <= x < 2^31
FloatToInt(x) ==
    IF IsZero(x) \/ x.e < 0 THEN 0
    ELSE LET s == 52 - x.e
         IN  IF s >= 27 THEN x.hi \div Pow2(s - 27)
             ELSE x.hi * Pow2(27 - s) + x.lo \div Pow2(s)

\* a key that ranks by accuracy alone
composite_accuracy_only(u) == u.accuracy_rate

\* key=lambda u: (u.total_quizzes_taken * u.accuracy_rate)
composite(u) == FMulInt(u.accuracy_rate, u.total_quizzes_taken)

\* u put into a list sorted by descending key, behind the rows whose key
\* is not smaller
InsertDescending(sorted, u) ==
    LET ahead == {i \in 1..Len(sorted) : ~FLess(composite(sorted[i]), composite(u))}
        k == Cardinality(ahead)
    IN  SubSeq(sorted, 1, k) \o <<u>> \o SubSeq(sorted, k + 1, Len(sorted))

\* the ascending sort, reversed: sorted(users, key=...)[::-1]
RECURSIVE sorted_ascending_reversed(_)
sorted_ascending_reversed(us) ==
    IF us = <<>> THEN <<>>
    ELSE LET sorted == sorted_ascending_reversed(SubSeq(us, 1, Len(us) - 1))
             u == us[Len(us)]
             k == Cardinality({i \in 1..Len(sorted) :
                                  FLess(composite(u), composite(sorted[i]))})
         IN  SubSeq(sorted, 1, k) \o <<u>> \o SubSeq(sorted, k + 1, Len(sorted))

\* sorted(users, key=..., reverse=True): a stable sort, rows with equal
\* keys stay in the order of the input
RECURSIVE sorted_descending(_)
sorted_descending(us) ==
    IF us = <<>> THEN <<>>
    ELSE InsertDescending(sorted_descending(SubSeq(us, 1, Len(us) - 1)), us[Len(us)])

\* the leaderboard of every user, whether or not they took a quiz
get_leaderboard_unfiltered(users, limit) ==
    LET sorted == sorted_descending(users)
        sorted_users == SubSeq(sorted, 1, IF limit < Len(sorted) THEN limit ELSE Len(sorted))
    IN  [idx \in 1..Len(sorted_users) |->
            [rank |-> idx,
             user_identifier |-> sorted_users[idx].id,
             total_quizzes |-> sorted_users[idx].total_quizzes_taken,
             accuracy_rate |-> sorted_users[idx].accuracy_rate,
             total_correct |-> sorted_users[idx].total_correct_answers,
             flags_submitted |-> sorted_users[idx].articles_flagged,
             score |-> FloatToInt(composite(sorted_users[idx]))]]

\* the list get_leaderboard returns; user_identifier stands for the
\* identifier or the "Anonymous #<id>" label, one per user
get_leaderboard(users, limit) ==
    LET sorted == sorted_descending(SelectSeq(users, LAMBDA u : u.total_quizzes_taken >= 1))
        sorted_users == SubSeq(sorted, 1, IF limit < Len(sorted) THEN limit ELSE Len(sorted))
    IN  [idx \in 1..Len(sorted_users) |->
            [rank |-> idx,
             user_identifier |-> sorted_users[idx].id,
             total_quizzes |-> sorted_users[idx].total_quizzes_taken,
             accuracy_rate |-> sorted_users[idx].accuracy_rate,
             total_correct |-> sorted_users[idx].total_correct_answers,
             flags_submitted |-> sorted_users[idx].articles_flagged,
             score |-> FloatToInt(composite(sorted_users[idx]))]]

\* rank: None
NoRank == 0

\* the rank counted from 0: enumerate(sorted_users)
user_rank_from_zero(users, user_id) ==
    LET found == SelectSeq(users, LAMBDA u : u.id = user_id)
        all_users == SelectSeq(users, LAMBDA u : u.total_quizzes_taken > 0)
        sorted_users == sorted_descending(all_users)
        at == {i \in 1..Len(sorted_users) : sorted_users[i].id = user_id}
    IN  IF found = <<>> THEN [found |-> FALSE]
        ELSE IF found[1].total_quizzes_taken = 0
             THEN [found |-> TRUE, rank |-> NoRank, total_users |-> 1]
             ELSE [found |-> TRUE,
                   rank |-> IF at = {} THEN NoRank
                            ELSE (CHOOSE i \in at : \A j \in at : i <= j) - 1,
                   total_users |-> Len(all_users)]

\* "rank" and "total_users" of get_user_statistics_detailed (lines 527-569);
\* a user has responses exactly when total_quizzes_taken > 0
user_rank(users, user_id) ==
    LET found == SelectSeq(users, LAMBDA u : u.id = user_id)
        all_users == SelectSeq(users, LAMBDA u : u.total_quizzes_taken > 0)
        sorted_users == sorted_descending(all_users)
        at == {i \in 1..Len(sorted_users) : sorted_users[i].id = user_id}
    IN  IF found = <<>> THEN [found |-> FALSE]
        ELSE IF found[1].total_quizzes_taken = 0
             THEN [found |-> TRUE, rank |-> NoRank, total_users |-> 1]
             ELSE [found |-> TRUE,
                   rank |-> IF at = {} THEN NoRank ELSE CHOOSE i \in at : \A j \in at : i <= j,
                   total_users |-> Len(all_users)]

\* the call: a table of MaxUsers users and either a limit or a user id
InitBoard ==
    /\ Constructed
    /\ \E t \in [1..MaxUsers -> BoardTotals] :
           LET users == [i \in 1..MaxUsers |-> BoardUser(i, t[i])]
           IN  \/ \E limit \in BoardLimits :
                      view = [fn |-> "get_leaderboard", users |-> users, arg |-> limit,
                              returned |-> FALSE, result |-> <<>>]
               \/ \E user_id \in 1..(MaxUsers + 1) :
                      view = [fn |-> "get_user_statistics_detailed", users |-> users,
                              arg |-> user_id, returned |-> FALSE, result |-> <<>>]

GetLeaderboard ==
    /\ view.fn = "get_leaderboard"
    /\ ~view.returned
    /\ view' = [view EXCEPT !.returned = TRUE,
                            !.result = get_leaderboard(view.users, view.arg)]
    /\ UNCHANGED <<store, now, pc, req, txn, orm, reply, last_call>>

GetUserStatisticsDetailed ==
    /\ view.fn = "get_user_statistics_detailed"
    /\ ~view.returned
    /\ view' = [view EXCEPT !.returned = TRUE,
                            !.result = user_rank(view.users, view.arg)]
    /\ UNCHANGED <<store, now, pc, req, txn, orm, reply, last_call>>

(***************************************************************************)
(* crud.get_article_statistics (lines 427-470) and its endpoint            *)
(* get_article_stats (main.py lines 233-239).                              *)
(***************************************************************************)
HighCredibilityFrom == 70

DisputedFrom == 40

ArticleStatisticsRequest(a) == [kind |-> "statistics", article_id |-> a]

\* the label with the first threshold exclusive
ArticleConsensusAbove(score) ==
    IF FLess(FromInt(HighCredibilityFrom), score) THEN "high_credibility"
    ELSE IF FGeq(score, FromInt(DisputedFrom)) THEN "disputed"
    ELSE "likely_misinformation"

\* lines 453-459
ArticleConsensus(score) ==
    IF FGeq(score, FromInt(HighCredibilityFrom)) THEN "high_credibility"
    ELSE IF FGeq(score, FromInt(DisputedFrom)) THEN "disputed"
    ELSE "likely_misinformation"

\* the dictionary the function returns for a stored article
get_article_statistics(article_id) ==
    LET rs == ResponsesOfArticle(article_id)
        misinformation_count == Len(SelectSeq(rs, LAMBDA r : r.user_flagged_as_misinformation))
    IN  IF rs = <<>>
        THEN [status |-> 200,
              article_id |-> article_id,
              total_users_analyzed |-> 0,
              credibility_score |-> FZero,
              avg_user_confidence |-> FZero,
              misinformation_flags |-> 0,
              credible_flags |-> 0,
              consensus |-> "not_enough_data"]
        ELSE [status |-> 200,
              article_id |-> article_id,
              total_users_analyzed |-> Len(rs),
              credibility_score |-> article[article_id].credibility_score,
              avg_user_confidence |->
                  FDiv(Sum([i \in 1..Len(rs) |-> rs[i].user_confidence_level]), Len(rs)),
              misinformation_flags |-> misinformation_count,
              credible_flags |-> Len(rs) - misinformation_count,
              consensus |-> ArticleConsensus(article[article_id].credibility_score)]

\* GET /api/articles/{article_id}/statistics: 404 when the article is not
\* stored
GetArticleStats(p, a) ==
    /\ pc[p] = "idle"
    /\ req' = [req EXCEPT ![p] = ArticleStatisticsRequest(a)]
    /\ reply' = [reply EXCEPT ![p] =
          IF a \notin ArticleIds THEN [status |-> 404] ELSE get_article_statistics(a)]
    /\ pc' = [pc EXCEPT ![p] = "responded"]
    /\ UNCHANGED <<store, now, txn, orm, last_call, view>>

(***************************************************************************)
(* A failure while a request is handled: an exception raised by a          *)
(* statement of create_user_response, update_article_credibility or        *)
(* update_user_statistics leaves the handler through "except Exception"    *)
(* (main.py lines 411-415 and 428-429), which answers 500; get_db then     *)
(* closes the session, which rolls back what it had not committed.         *)
(***************************************************************************)
InProgress == {"flush", "answers", "article_read", "article_commit", "user_read", "user_commit"}

\* the failed submission run again from its start
FailsAndRetries(p) ==
    /\ pc[p] \in InProgress
    /\ txn' = [txn EXCEPT ![p] = NoTxn]
    /\ orm' = [orm EXCEPT ![p] = NoOrm]
    /\ reply' = [reply EXCEPT ![p] = NoReply]
    /\ pc' = [pc EXCEPT ![p] = IF req[p].kind = "quiz" /\ Len(responses) < MaxResponses
                                THEN "flush" ELSE "responded"]
    /\ UNCHANGED <<store, now, req, last_call, view>>

\* the committed response and its answers deleted when the recompute fails
FailsAndRollsBack(p) ==
    /\ pc[p] \in InProgress
    /\ txn' = [txn EXCEPT ![p] = NoTxn]
    /\ orm' = [orm EXCEPT ![p] = NoOrm]
    /\ reply' = [reply EXCEPT ![p] = [status |-> 500]]
    /\ pc' = [pc EXCEPT ![p] = "responded"]
    /\ IF req[p].kind = "quiz" /\ pc[p] \notin {"flush", "answers"}
       THEN /\ responses' = SelectSeq(responses, LAMBDA r : r.id # reply[p].response_id)
            /\ answers' = SelectSeq(answers, LAMBDA x : x.response_id # reply[p].response_id)
       ELSE UNCHANGED <<responses, answers>>
    /\ UNCHANGED <<flags, article, user, now, req, last_call, view>>

Fails(p) ==
    /\ pc[p] \in InProgress
    /\ txn' = [txn EXCEPT ![p] = NoTxn]
    /\ orm' = [orm EXCEPT ![p] = NoOrm]
    /\ reply' = [reply EXCEPT ![p] = [status |-> 500]]
    /\ pc' = [pc EXCEPT ![p] = "responded"]
    /\ UNCHANGED <<store, now, req, last_call, view>>

(***************************************************************************)
(* Specifications.  Spec is the application as uvicorn.run(app) serves it: *)
(* the handlers are coroutines that never await, so one request is handled *)
(* at a time.  SpecWorkers is the application served by several worker     *)
(* processes on one database.  SpecCalls adds direct calls of              *)
(* update_user_statistics and the passing of time.                         *)
(***************************************************************************)
Request(p, S, F) ==
    \/ \E s \in S : SubmitQuiz(p, s)
    \/ \E f \in F : CreateFlag(p, f)

Step(p) ==
    \/ Flush(p)
    \/ AddAnswer(p)
    \/ CommitResponse(p)
    \/ ArticleRead(p)
    \/ ArticleCommit(p)
    \/ UserRead(p)
    \/ UserCommit(p)
    \/ Respond(p)
    \/ Close(p)

Next == Request(1, Submissions, FlagRequests) \/ Step(1)

Spec == Init /\ [][Next]_vars

NextWorkers == \E p \in Workers : Request(p, WorkerSubmissions, FlagRequests) \/ Step(p)

SpecWorkers == Init /\ [][NextWorkers]_vars

NextCalls ==
    \/ Request(1, CallSubmissions, FlagRequests)
    \/ Step(1)
    \/ Tick
    \/ \E u \in UserIds \cup {3} : CallUpdateUserStatistics(u)

SpecCalls == Init /\ [][NextCalls]_vars

NextRatings == Request(1, RatingSubmissions, {MisinformationFlagCreate(1, 1)}) \/ Step(1)

SpecRatings == Init /\ [][NextRatings]_vars

NextStreak == CalculateStreak

SpecStreak == InitStreak /\ [][NextStreak]_vars

NextAchievements == GetUserAchievements

SpecAchievements == InitAchievements /\ [][NextAchievements]_vars

NextBoard == GetLeaderboard \/ GetUserStatisticsDetailed

SpecBoard == InitBoard /\ [][NextBoard]_vars

\* the submissions of SpecRatings and the reads of the article statistics
NextConsensus ==
    \/ \E s \in RatingSubmissions : SubmitQuiz(1, s)
    \/ Step(1)
    \/ \E a \in ArticleIds \cup {3} : GetArticleStats(1, a)

SpecConsensus == Init /\ [][NextConsensus]_vars

\* the answers a client may send for up to two questions: right for
\* question 1, wrong for question 2, and for question 3, which is not
\* stored
AnswerLists ==
    LET one == {Answer(1, 2), Answer(2, 2), Answer(3, 2)}
    IN  {<<>>} \cup {<<x>> : x \in one} \cup {<<x, y>> : x \in one, y \in one}

AnswerSubmissions ==
    {QuizSubmission(1, 1, a, [user_credibility_rating |-> 4, user_confidence_level |-> 3,
                              user_flagged_as_misinformation |-> FALSE]) :
        a \in AnswerLists}

\* one request at a time, any of which may fail
NextFailures ==
    \/ Request(1, AnswerSubmissions, {MisinformationFlagCreate(1, 1)})
    \/ Step(1)
    \/ Fails(1)

SpecFailures == Init /\ [][NextFailures]_vars

(***************************************************************************)
(* The claims.                                                             *)
(***************************************************************************)
ResponseIndex == 1..Len(responses)

\* the user_answers rows of one response
AnswerRows(id) == {j \in 1..Len(answers) : answers[j].response_id = id}

RECURSIVE SumOver(_, _)
SumOver(I, f) ==
    IF I = {} THEN 0
    ELSE LET i == CHOOSE j \in I : TRUE IN f[i] + SumOver(I \ {i}, f)

ByArticle(a) == {i \in ResponseIndex : responses[i].article_id = a}

ByUser(u) == {i \in ResponseIndex : responses[i].user_id = u}

\* C1: every stored UserResponse has total_questions equal to the number of
\* its UserAnswer rows, that is, of the submitted answers whose question
\* exists; an answer for a missing question does not count.
C1_TotalQuestionsCountsStoredAnswers ==
    \A i \in ResponseIndex :
        responses[i].total_questions = Cardinality(AnswerRows(responses[i].id))

Recomputing(a) ==
    {p \in Workers : /\ req[p].kind = "quiz"
                     /\ pc[p] \in {"article_read", "article_commit"}
                     /\ ArticleOf(req[p]) = a}

C3_UserStatisticsAreTheFold ==
    Idle =>
        \A u \in UserIds :
            /\ user[u].total_quizzes_taken = Cardinality(ByUser(u))
            /\ user[u].total_correct_answers
                   = SumOver(ByUser(u), [i \in ResponseIndex |-> responses[i].correct_answers])
            /\ user[u].total_answers
                   = SumOver(ByUser(u), [i \in ResponseIndex |-> responses[i].total_questions])

C3_Witness ==
    /\ Idle
    /\ Len(responses) = 2
    /\ \E u \in UserIds : user[u].total_quizzes_taken = 1 /\ user[u].total_answers = 3

\* C4: once the requests have completed, every user's articles_flagged is
\* the number of MisinformationFlag rows of that user.
C4_ArticlesFlaggedIsTheFlagCount ==
    Idle =>
        \A u \in UserIds :
            user[u].articles_flagged
                = Cardinality({i \in 1..Len(flags) : flags[i].user_id = u})

\* C5: a response row is in the store only from the commit that also puts
\* all of its answer rows and its final score there: no row of an open
\* transaction is stored, the commit adds the response with the answers
\* of every submitted answer whose question exists, and stored responses
\* and their answers never change.
C5_ResponseVisibleOnlyWhole ==
    [][/\ \A p \in Workers :
              txn'[p].open =>
                  /\ \A i \in 1..Len(responses') : responses'[i].id # txn'[p].response.id
                  /\ \A j \in 1..Len(answers') : answers'[j].response_id # txn'[p].response.id
       /\ \A i \in ResponseIndex : i <= Len(responses') /\ responses'[i] = responses[i]
       /\ \A j \in 1..Len(answers) : j <= Len(answers') /\ answers'[j] = answers[j]
       /\ \A i \in 1..Len(responses') :
              LET r == responses'[i]
                  rows == {j \in 1..Len(answers') : answers'[j].response_id = r.id}
              IN  /\ r.correct_answers = Cardinality({j \in rows : answers'[j].is_correct})
                  /\ i > Len(responses) =>
                         \E p \in Workers :
                             /\ pc[p] = "answers"
                             /\ Cardinality(rows)
                                    = Cardinality({k \in 1..Len(req[p].answers) :
                                          req[p].answers[k].question_id \in QuestionIds})
      ]_vars

C5_Witness ==
    \E p, q \in Workers :
        /\ txn[p].open
        /\ txn[p].answers # <<>>
        /\ txn[p].idx < Len(req[p].answers)
        /\ pc[q] \in {"article_read", "user_read"}
        /\ Len(responses) = 1

\* C6: the four derived columns of every Article are the aggregate of one
\* response set that was, at some moment, the whole committed response set
\* of the article (its first k responses in commit order, for some k).
C6_ArticleIsAggregateOfOneSnapshot ==
    \A a \in ArticleIds :
        \E k \in 0..Len(ResponsesOfArticle(a)) :
            article[a] = ArticleAggregate(NewArticle, SubSeq(ResponsesOfArticle(a), 1, k))

\* C7: a submission for an unknown quiz is answered with HTTP 400 and the
\* store is left as it was.
C7_UnknownQuizRejected ==
    [][\A p \in Workers :
          (req'[p].kind = "quiz" /\ req'[p].quiz_id \notin QuizIds) =>
              /\ store' = store
              /\ pc'[p] = "responded"
              /\ reply'[p].status = 400
              /\ ~txn'[p].open
      ]_vars

C7_Witness ==
    /\ pc[1] = "responded"
    /\ reply[1].status = 400
    /\ req[1].quiz_id \notin QuizIds
    /\ Len(responses) = 1

\* C8: no UserResponse is stored for a user that does not exist.
C8_NoResponseOfUnknownUser ==
    \A i \in ResponseIndex : responses[i].user_id \in UserIds

\* C9, as claimed: accuracy_rate * total_answers == total_correct_answers * 100
\* when total_answers > 0, and accuracy_rate == 0 when total_answers == 0.
C9_AccuracyTimesTotalAnswers ==
    \A u \in UserIds :
        IF user[u].total_answers > 0
        THEN FMulInt(user[u].accuracy_rate, user[u].total_answers)
                 = FromInt(user[u].total_correct_answers * 100)
        ELSE user[u].accuracy_rate = FZero

\* C9, amended: accuracy_rate is the double that
\* total_correct_answers / total_answers * 100 evaluates to (the quotient
\* rounded, then the product rounded) when total_answers > 0, and 0 when
\* total_answers == 0.
C9_AccuracyIsTheRoundedQuotient ==
    \A u \in UserIds :
        user[u].accuracy_rate =
            IF user[u].total_answers > 0
            THEN FMulInt(FDiv(user[u].total_correct_answers, user[u].total_answers), 100)
            ELSE FZero

C9_Witness ==
    \E u \in UserIds :
        /\ user[u].total_answers = 3
        /\ user[u].total_correct_answers = 1
        /\ FLess(FMulInt(user[u].accuracy_rate, 3), FromInt(100))

\* C10, as claimed: a second call of update_user_statistics for the same
\* user, with no response or flag created since the first, leaves every
\* field of the User as it was.
C10_SecondCallChangesNothing ==
    [][\A u \in UserIds :
          (last_call.user = u /\ last_call'.user = u) => user'[u] = user[u]
      ]_vars

\* C10, amended: such a second call leaves every field of the User except
\* last_active as it was; last_active becomes the time of the call.
C10_SecondCallChangesOnlyLastActive ==
    [][\A u \in UserIds :
          (last_call.user = u /\ last_call'.user = u) =>
              /\ [user'[u] EXCEPT !.last_active = 0] = [user[u] EXCEPT !.last_active = 0]
              /\ user'[u].last_active \in {user[u].last_active, now}
      ]_vars

C10_Witness ==
    /\ last_call.n = 2
    /\ last_call.user \in UserIds
    /\ user[last_call.user].total_quizzes_taken = 2
    /\ user[last_call.user].last_active = 2

\* C11: every stored UserResponse has score_percentage * n == correct_answers
\* * 100 when n > 0 and score_percentage == 0 when n == 0, where n is the
\* number of its submitted answers whose question resolves (its UserAnswer
\* rows).
C11_ScoreTimesResolvedAnswers ==
    \A i \in ResponseIndex :
        LET n == Cardinality(AnswerRows(responses[i].id))
        IN  IF n > 0
            THEN FMulInt(responses[i].score_percentage, n)
                     = FromInt(responses[i].correct_answers * 100)
            ELSE responses[i].score_percentage = FZero

WeightedSum(a) ==
    SumOver(ByArticle(a),
            [i \in ResponseIndex |->
                responses[i].user_credibility_rating * responses[i].user_confidence_level])

TotalWeight(a) ==
    SumOver(ByArticle(a), [i \in ResponseIndex |-> responses[i].user_confidence_level])

\* C12, as claimed: once update_article_credibility has run on an article
\* with at least one response, credibility_score * sum(confidence)
\* == 20 * sum(rating * confidence) over the responses of the article.
C12_ScoreTimesTotalWeight ==
    Idle =>
        \A a \in ArticleIds :
            ByArticle(a) # {} =>
                FMulInt(article[a].credibility_score, TotalWeight(a))
                    = FromInt(20 * WeightedSum(a))

\* C12, amended: once update_article_credibility has run on an article with
\* at least one response, credibility_score is the double that
\* (sum(rating * confidence) / sum(confidence)) * 20 evaluates to: the
\* quotient rounded, then the product rounded.
C12_ScoreIsTheRoundedWeightedMean ==
    Idle =>
        \A a \in ArticleIds :
            ByArticle(a) # {} =>
                article[a].credibility_score
                    = FMulInt(FDiv(WeightedSum(a), TotalWeight(a)), 20)

C12_Witness ==
    /\ Idle
    /\ \E a \in ArticleIds :
           /\ Cardinality(ByArticle(a)) = 2
           /\ WeightedSum(a) = 19
           /\ TotalWeight(a) = 7
           /\ article[a].total_responses = 2
           /\ FLess(FromInt(20 * 19), FMulInt(article[a].credibility_score, 7))

\* C13: in every reachable state every Article's credibility_score lies in
\* [0, 100], whatever the ratings (1..5) and confidence levels (1..5) of
\* the responses.
C13_ScoreWithinScale ==
    \A a \in ArticleIds :
        /\ FGeq(article[a].credibility_score, FZero)
        /\ FGeq(FromInt(100), article[a].credibility_score)

C13_Witness ==
    \E a \in ArticleIds :
        /\ article[a].total_responses = 2
        /\ article[a].credibility_score = FromInt(100)
        /\ \E i, j \in ByArticle(a) :
               /\ responses[i].user_confidence_level = 5
               /\ responses[j].user_confidence_level = 1

FlaggedBy(a) == {i \in ByArticle(a) : responses[i].user_flagged_as_misinformation}

\* C14: once update_article_credibility has run on an article with at least
\* one response, total_responses is the number of its responses,
\* flagged_as_misinformation the number of them flagged as misinformation,
\* and flagged_as_credible is total_responses - flagged_as_misinformation.
C14_CountsOfTheResponsesRead ==
    Idle =>
        \A a \in ArticleIds :
            ByArticle(a) # {} =>
                /\ article[a].total_responses = Cardinality(ByArticle(a))
                /\ article[a].flagged_as_misinformation = Cardinality(FlaggedBy(a))
                /\ article[a].flagged_as_credible
                       = article[a].total_responses - article[a].flagged_as_misinformation

C14_Witness ==
    /\ Idle
    /\ \E a \in ArticleIds :
           /\ Cardinality(ByArticle(a)) = 2
           /\ Cardinality(FlaggedBy(a)) = 1
           /\ article[a].flagged_as_credible = 1

\* C15: update_article_credibility run on an article without responses
\* leaves the four derived columns as they were, and goes on to its return
\* (no error).
C15_NoResponsesNoChange ==
    [][\A p \in Workers :
          (/\ pc[p] \in {"article_read", "article_commit"}
           /\ ArticleOf(req[p]) \in ArticleIds
           /\ ByArticle(ArticleOf(req[p])) = {}) =>
              /\ article' = article
              /\ pc'[p] \in {"article_read", "article_commit", "respond"}
      ]_vars

C15_Witness ==
    /\ pc[1] = "respond"
    /\ req[1].kind = "flag"
    /\ req[1].article_id \in ArticleIds
    /\ ByArticle(req[1].article_id) = {}
    /\ article[req[1].article_id] = NewArticle
    /\ flags # <<>>

\* the calendar dates of a list of responses
DatesOf(rs) == {date(rs[i].completed_at) : i \in 1..Len(rs)}

\* the length of the run of consecutive dates of D that ends at its latest
RunEndingAtLatest(D) ==
    IF D = {} THEN 0
    ELSE LET latest == CHOOSE x \in D : \A y \in D : y <= x
         IN  CHOOSE k \in 1..Cardinality(D) :
                 /\ \A j \in 0..(k - 1) : (latest - j) \in D
                 /\ (latest - k) \notin D

\* C16: calculate_streak returns the length of the run of consecutive
\* calendar days that ends at the most recent response date: a date with
\* several responses counts once, the first missing day ends the run, an
\* empty list gives 0, and the order of the responses does not matter.
C16_StreakIsTheRunEndingAtLatest ==
    (view.fn = "calculate_streak" /\ view.returned) =>
        view.result = RunEndingAtLatest(DatesOf(view.responses))

\* responses on the dates {D, D, D-1, D-3}, the latest not first
C16_Witness ==
    /\ view.fn = "calculate_streak"
    /\ view.returned
    /\ view.result = 2
    /\ Len(view.responses) = 4
    /\ \E D \in DatesOf(view.responses) : DatesOf(view.responses) = {D, D - 1, D - 3}
    /\ \E i, j \in 1..4 :
           /\ i < j
           /\ date(view.responses[i].completed_at) = date(view.responses[j].completed_at)
           /\ view.responses[i].completed_at # view.responses[j].completed_at
    /\ date(view.responses[1].completed_at) < date(view.responses[4].completed_at)

\* the badges: the statistic each one is judged on, and its threshold
Tiers ==
    {<<"first_quiz", "quizzes", 1>>, <<"getting_started", "quizzes", 5>>,
     <<"quiz_master", "quizzes", 10>>, <<"dedicated", "quizzes", 25>>,
     <<"quiz_legend", "quizzes", 50>>,
     <<"good_eye", "accuracy", 70>>, <<"sharp_eye", "accuracy", 80>>,
     <<"eagle_eye", "accuracy", 90>>, <<"perfectionist", "accuracy", 95>>,
     <<"vigilant", "flags", 1>>, <<"fact_checker", "flags", 5>>,
     <<"truth_seeker", "flags", 10>>,
     <<"consistent", "streak", 3>>, <<"weekly_warrior", "streak", 7>>,
     <<"unstoppable", "streak", 14>>}

\* the statistic of a family is at least the threshold
Reached(u, rs, family, threshold) ==
    CASE family = "quizzes" -> u.total_quizzes_taken >= threshold
      [] family = "accuracy" -> ~FLess(u.accuracy_rate, FromInt(threshold))
      [] family = "flags" -> u.articles_flagged >= threshold
      [] family = "streak" -> RunEndingAtLatest(DatesOf(rs)) >= threshold

BadgeSet(result) == {result[i] : i \in 1..Len(result)}

\* C17: the badge identifiers get_user_achievements returns are exactly the
\* badges whose statistic is >= the threshold, each judged on its own; so a
\* higher tier comes with every lower tier of its family, and 10 quizzes at
\* accuracy 92 with no flag and a streak below 3 give exactly first_quiz,
\* getting_started, quiz_master, good_eye, sharp_eye and eagle_eye.
C17_BadgesAreTheReachedThresholds ==
    (view.fn = "get_user_achievements" /\ view.returned /\ view.user # NoRow) =>
        /\ BadgeSet(view.result)
               = {t[1] : t \in {x \in Tiers :
                                   Reached(view.user, view.responses, x[2], x[3])}}
        /\ \A i, j \in 1..Len(view.result) : i # j => view.result[i] # view.result[j]
        /\ \A t, lower \in Tiers :
               (t[2] = lower[2] /\ lower[3] < t[3] /\ t[1] \in BadgeSet(view.result))
                   => lower[1] \in BadgeSet(view.result)

C17_Witness ==
    /\ view.fn = "get_user_achievements"
    /\ view.returned
    /\ view.user # NoRow
    /\ view.user.total_quizzes_taken = 10
    /\ view.user.accuracy_rate = FDiv(92, 1)
    /\ view.user.articles_flagged = 0
    /\ BadgeSet(view.result) = {"first_quiz", "getting_started", "quiz_master",
                                "good_eye", "sharp_eye", "eagle_eye"}

\* the rows of a users table that may be listed, and the place of a user
\* in the table
Eligible(users) == {i \in 1..Len(users) : users[i].total_quizzes_taken >= 1}

PlaceOf(users, id) == CHOOSE i \in 1..Len(users) : users[i].id = id

\* the rank of user id in a leaderboard, 0 when not listed
ListedAt(board, id) ==
    IF \E k \in 1..Len(board) : board[k].user_identifier = id
    THEN CHOOSE k \in 1..Len(board) : board[k].user_identifier = id
    ELSE 0

Board == view.fn = "get_leaderboard" /\ view.returned

\* C18: get_leaderboard lists only users with total_quizzes_taken >= 1
\* (as many of them as the limit admits, each once), in non-increasing order
\* of total_quizzes_taken * accuracy_rate, with ranks 1..n in that order.
C18_LeaderboardOrder ==
    Board =>
        LET board == view.result
            users == view.users
        IN  /\ Len(board) = IF view.arg < Cardinality(Eligible(users)) THEN view.arg
                             ELSE Cardinality(Eligible(users))
            /\ \A k \in 1..Len(board) :
                   /\ board[k].rank = k
                   /\ board[k].total_quizzes >= 1
                   /\ \E i \in Eligible(users) :
                          /\ users[i].id = board[k].user_identifier
                          /\ users[i].total_quizzes_taken = board[k].total_quizzes
                          /\ users[i].accuracy_rate = board[k].accuracy_rate
            /\ \A k, l \in 1..Len(board) :
                   k < l =>
                       /\ board[k].user_identifier # board[l].user_identifier
                       /\ ~FLess(FMulInt(board[k].accuracy_rate, board[k].total_quizzes),
                                 FMulInt(board[l].accuracy_rate, board[l].total_quizzes))

\* A with 10 quizzes at 50% above B with 4 quizzes at 90%, B first in the
\* table, with a user who took no quiz left out
C18_Witness ==
    /\ Board
    /\ Len(view.result) = 2
    /\ view.users[1].total_quizzes_taken = 0
    /\ view.users[2].total_quizzes_taken = 4
    /\ view.users[2].accuracy_rate = FDiv(90, 1)
    /\ view.users[3].total_quizzes_taken = 10
    /\ view.users[3].accuracy_rate = FDiv(50, 1)
    /\ view.result[1].user_identifier = 3
    /\ view.result[1].score = 500
    /\ view.result[2].user_identifier = 2
    /\ view.result[2].score = 360

\* the rank a stable descending sort gives row i of the table
StableRank(users, i) ==
    1 + Cardinality({j \in Eligible(users) :
                        \/ FLess(composite(users[i]), composite(users[j]))
                        \/ composite(users[j]) = composite(users[i]) /\ j < i})

\* C19: in the leaderboard and in the rank lookup, users with equal
\* composite scores keep the order in which the table enumerates them.
C19_TiesKeepEnumerationOrder ==
    /\ Board =>
           \A k, l \in 1..Len(view.result) :
               (/\ k < l
                /\ FMulInt(view.result[k].accuracy_rate, view.result[k].total_quizzes)
                       = FMulInt(view.result[l].accuracy_rate, view.result[l].total_quizzes))
                   => PlaceOf(view.users, view.result[k].user_identifier)
                          < PlaceOf(view.users, view.result[l].user_identifier)
    /\ (/\ view.fn = "get_user_statistics_detailed"
        /\ view.returned
        /\ view.result.found
        /\ view.result.rank # NoRank) =>
           view.result.rank = StableRank(view.users, PlaceOf(view.users, view.arg))

\* a rank lookup of the last of three users with equal, positive scores
C19_Witness ==
    /\ view.fn = "get_user_statistics_detailed"
    /\ view.returned
    /\ view.result.found
    /\ view.result.rank = 3
    /\ view.arg = 3
    /\ composite(view.users[1]) = composite(view.users[3])
    /\ composite(view.users[2]) = composite(view.users[3])
    /\ view.users[1].accuracy_rate # view.users[2].accuracy_rate
    /\ view.users[2].accuracy_rate = view.users[3].accuracy_rate

\* C20, as claimed: of two eligible users with equal accuracy_rate, the one
\* with more quizzes is ranked strictly above the other, whatever the
\* shared accuracy_rate (0 included) and the order of enumeration.
C20_MoreQuizzesRanksAbove ==
    Board =>
        \A i, j \in Eligible(view.users) :
            (/\ view.users[i].accuracy_rate = view.users[j].accuracy_rate
             /\ view.users[i].total_quizzes_taken > view.users[j].total_quizzes_taken
             /\ ListedAt(view.result, view.users[j].id) # 0)
                => /\ ListedAt(view.result, view.users[i].id) # 0
                   /\ ListedAt(view.result, view.users[i].id)
                          < ListedAt(view.result, view.users[j].id)

\* C20, amended: of two eligible users with equal accuracy_rate above 0,
\* the one with more quizzes is ranked strictly above the other, whatever
\* the order of enumeration (and so is listed whenever the other is).
C20_MoreQuizzesRanksAboveWhenAccurate ==
    Board =>
        \A i, j \in Eligible(view.users) :
            (/\ view.users[i].accuracy_rate = view.users[j].accuracy_rate
             /\ FLess(FZero, view.users[i].accuracy_rate)
             /\ view.users[i].total_quizzes_taken > view.users[j].total_quizzes_taken
             /\ ListedAt(view.result, view.users[j].id) # 0)
                => /\ ListedAt(view.result, view.users[i].id) # 0
                   /\ ListedAt(view.result, view.users[i].id)
                          < ListedAt(view.result, view.users[j].id)

\* 10 quizzes at 50% listed above 2 quizzes at 50% that the table
\* enumerates first
C20_Witness ==
    /\ Board
    /\ \E i, j \in Eligible(view.users) :
           /\ j < i
           /\ view.users[i].accuracy_rate = FDiv(50, 1)
           /\ view.users[j].accuracy_rate = FDiv(50, 1)
           /\ view.users[i].total_quizzes_taken = 10
           /\ view.users[j].total_quizzes_taken = 2
           /\ ListedAt(view.result, view.users[j].id) = 2
           /\ ListedAt(view.result, view.users[i].id) = 1

\* C21: the rank get_user_statistics_detailed reports is the user's place,
\* counted from 1, among the users with total_quizzes_taken >= 1 sorted by
\* descending composite score; it is the rank get_leaderboard gives that
\* user when its limit admits every such user; and it is None exactly when
\* the user has taken no quiz.
C21_RankIsTheLeaderboardRank ==
    (/\ view.fn = "get_user_statistics_detailed"
     /\ view.returned
     /\ view.result.found) =>
        LET users == view.users
            i == PlaceOf(users, view.arg)
            board == get_leaderboard(users, Len(users))
        IN  /\ (view.result.rank = NoRank) <=> (i \notin Eligible(users))
            /\ i \in Eligible(users) =>
                   /\ view.result.rank \in 1..Cardinality(Eligible(users))
                   /\ view.result.rank = StableRank(users, i)
                   /\ view.result.rank = ListedAt(board, view.arg)
                   /\ board[view.result.rank].rank = view.result.rank
                   /\ view.result.total_users = Len(board)

\* a rank lookup of the second of three ranked users, whom the table
\* enumerates first
C21_Witness ==
    /\ view.fn = "get_user_statistics_detailed"
    /\ view.returned
    /\ view.result.found
    /\ view.arg = 1
    /\ view.result.rank = 2
    /\ Cardinality(Eligible(view.users)) = 3
    /\ ListedAt(get_leaderboard(view.users, 10), 1) = 2

\* the label of the submission reply that the claim gives a score
SubmissionLabel(score) ==
    IF FGeq(score, FromInt(70)) THEN "likely_credible"
    ELSE IF FGeq(score, FromInt(40)) THEN "possibly_misleading"
    ELSE "likely_fake"

\* the label of the article statistics that corresponds to a label of the
\* submission reply
StatisticsLabel(label) ==
    CASE label = "likely_credible" -> "high_credibility"
      [] label = "possibly_misleading" -> "disputed"
      [] label = "likely_fake" -> "likely_misinformation"

SubmissionReplied(p) ==
    /\ pc[p] = "responded"
    /\ req[p].kind = "quiz"
    /\ reply[p].status = 200

StatisticsReplied(p) ==
    /\ pc[p] = "responded"
    /\ req[p].kind = "statistics"
    /\ reply[p].status = 200

C23_QuiescentStateIsTheRecompute ==
    Idle =>
        /\ \A a \in ArticleIds :
               article[a] = ArticleAggregate(NewArticle, ResponsesOfArticle(a))
        /\ \A u \in UserIds :
               /\ user[u].total_quizzes_taken = Len(ResponsesOfUser(u))
               /\ user[u].total_correct_answers
                      = Sum([i \in 1..Len(ResponsesOfUser(u)) |->
                                ResponsesOfUser(u)[i].correct_answers])
               /\ user[u].total_answers
                      = Sum([i \in 1..Len(ResponsesOfUser(u)) |->
                                ResponsesOfUser(u)[i].total_questions])

AfterCommit == {"article_read", "article_commit", "user_read", "user_commit"}

\* the committed response of the submission worker p is handling
Committed(p) == {i \in ResponseIndex : responses[i].id = reply[p].response_id}

\* C24: when the re-aggregation fails after the response was committed, the
\* caller is answered with an error and the committed UserResponse and its
\* UserAnswers stay in the store; no step removes or changes a committed
\* response or answer.
C24_FailureKeepsTheCommittedResponse ==
    [][/\ \A p \in Workers :
              (/\ req[p].kind = "quiz"
               /\ pc[p] \in AfterCommit
               /\ pc'[p] = "responded"
               /\ reply'[p].status = 500)
                  => /\ responses' = responses
                     /\ answers' = answers
                     /\ \E i \in Committed(p) :
                            /\ responses'[i].quiz_id = req[p].quiz_id
                            /\ responses'[i].user_id = req[p].user_id
                            /\ Cardinality(AnswerRows(responses'[i].id))
                                   = Cardinality({k \in 1..Len(req[p].answers) :
                                         req[p].answers[k].question_id \in QuestionIds})
       /\ Len(responses') >= Len(responses)
       /\ SubSeq(responses', 1, Len(responses)) = responses
       /\ Len(answers') >= Len(answers)
       /\ SubSeq(answers', 1, Len(answers)) = answers]_vars

\* a submission answered 500 after its response with two answers was
\* committed, the article not yet recomputed
C24_Witness ==
    /\ pc[1] = "responded"
    /\ req[1].kind = "quiz"
    /\ reply[1].status = 500
    /\ Len(responses) = 1
    /\ Len(answers) = 2
    /\ responses[1].correct_answers = 1
    /\ article[1].total_responses = 0
    /\ user[1].total_quizzes_taken = 0

\* the place of a step on the path of a submission
Place(at) ==
    CASE at = "idle" -> 0
      [] at = "flush" -> 1
      [] at = "answers" -> 2
      [] at = "article_read" -> 3
      [] at = "article_commit" -> 4
      [] at = "user_read" -> 5
      [] at = "user_commit" -> 6
      [] at = "respond" -> 7
      [] at = "responded" -> 8

\* C25: a submission goes once through the quiz lookup, the scoring with
\* its single commit, update_article_credibility, update_user_statistics
\* and the reply, in that order: every step moves it forward (the scoring
\* loop to its next answer), the response is committed by one step that
\* precedes both recomputes, and a failure ends the submission without
\* running an earlier step again.
C25_OneLinearPath ==
    [][\A p \in Workers :
           LET quiz == IF pc[p] = "idle" THEN req'[p].kind = "quiz" ELSE req[p].kind = "quiz"
           IN  (quiz /\ <<pc[p], txn[p], orm[p], reply[p]>>
                            # <<pc'[p], txn'[p], orm'[p], reply'[p]>>) =>
                   /\ \/ pc[p] = "idle" /\ pc'[p] = "flush"
                      \/ pc[p] = "idle" /\ pc'[p] = "responded" /\ reply'[p].status = 400
                      \/ pc[p] = "flush" /\ pc'[p] = "answers"
                      \/ pc[p] = "answers" /\ pc'[p] = "answers" /\ txn'[p].idx = txn[p].idx + 1
                      \/ pc[p] = "answers" /\ pc'[p] = "article_read"
                      \/ pc[p] = "article_read" /\ pc'[p] = "article_commit"
                      \/ pc[p] = "article_commit" /\ pc'[p] = "user_read"
                      \/ pc[p] = "user_read" /\ pc'[p] \in {"user_commit", "respond"}
                      \/ pc[p] = "user_commit" /\ pc'[p] = "respond"
                      \/ pc[p] = "respond" /\ pc'[p] = "responded" /\ reply'[p].status = 200
                      \/ pc[p] = "responded" /\ pc'[p] = "idle"
                      \/ pc[p] \in InProgress /\ pc'[p] = "responded" /\ reply'[p].status = 500
                   /\ pc'[p] # "idle" => Place(pc'[p]) >= Place(pc[p])
                   /\ (responses' # responses) <=>
                          (/\ pc[p] = "answers"
                           /\ pc'[p] = "article_read"
                           /\ Len(responses') = Len(responses) + 1)
                   /\ pc'[p] \in AfterCommit => Committed(p)' # {}
                   /\ (article' # article) => pc[p] = "article_commit"
                   /\ (user' # user) => pc[p] = "user_commit"]_vars

\* a submission that has gone through every step and is about to reply
C25_Witness ==
    /\ pc[1] = "respond"
    /\ req[1].kind = "quiz"
    /\ Len(responses) = 2
    /\ reply[1].response_id = 2
    /\ article[1].total_responses = 2
    /\ user[1].total_quizzes_taken = 2

\* the places, among the responses of article a in commit order, of the
\* response with the given id
PlacesOf(a, id) ==
    {i \in 1..Len(ResponsesOfArticle(a)) : ResponsesOfArticle(a)[i].id = id}

\* C26: the article_credibility_score and the community_consensus of the
\* reply to a successful submission are computed from a set of committed
\* responses of the article that contains the response just submitted,
\* also when submissions to the same article are handled concurrently.
C26_ReplyCountsTheSubmittedResponse ==
    \A p \in Workers :
        SubmissionReplied(p) =>
            LET a == ArticleOf(req[p])
                rs == ResponsesOfArticle(a)
            IN  \E i \in PlacesOf(a, reply[p].response_id) :
                    \E k \in i..Len(rs) :
                        LET computed == ArticleAggregate(NewArticle, SubSeq(rs, 1, k))
                        IN  /\ reply[p].article_credibility_score = computed.credibility_score
                            /\ reply[p].community_consensus
                                   = Consensus(computed.credibility_score)

C29_CorrectAnswersCountTheCorrectRows ==
    \A i \in ResponseIndex :
        /\ responses[i].correct_answers
               = Cardinality({j \in AnswerRows(responses[i].id) : answers[j].is_correct})
        /\ \A j \in AnswerRows(responses[i].id) :
               /\ answers[j].question_id \in QuestionIds
               /\ answers[j].is_correct
                      <=> (answers[j].selected_option = CorrectOption[answers[j].question_id])
        /\ 0 <= responses[i].correct_answers
        /\ responses[i].correct_answers <= responses[i].total_questions
        /\ FGeq(responses[i].score_percentage, FZero)
        /\ FGeq(FromInt(100), responses[i].score_percentage)

\* a committed response with one answer right and one wrong
C29_Witness ==
    /\ Len(responses) = 1
    /\ responses[1].total_questions = 2
    /\ responses[1].correct_answers = 1
    /\ responses[1].score_percentage = FromInt(50)
    /\ Len(answers) = 2
    /\ answers[1].is_correct
    /\ ~answers[2].is_correct
    /\ answers[2].selected_option # CorrectOption[answers[2].question_id]

\* C30: in every reachable state, every Article has
\* flagged_as_misinformation + flagged_as_credible = total_responses, and
\* none of the three is negative.
C30_FlagCountsSumToTotal ==
    \A a \in ArticleIds :
        /\ article[a].flagged_as_misinformation + article[a].flagged_as_credible
               = article[a].total_responses
        /\ article[a].flagged_as_misinformation >= 0
        /\ article[a].flagged_as_credible >= 0
        /\ article[a].total_responses >= 0

====
